---- MODULE Spec2Model ----
(***************************************************************************)
(* A model of herepy/routing_api.py: the RoutingApi client of the HERE     *)
(* routing and matrix endpoints.  One behaviour of the model is one call   *)
(* of one public operation of the client, cut at its network calls.        *)
(*                                                                         *)
(* Strings that the code assembles are sequences of string pieces, so that *)
(* splitting, replacing and joining are computed and not assumed.          *)
(***************************************************************************)
EXTENDS Naturals, Integers, Sequences, FiniteSets, TLC

VARIABLES
    op,          \* the public operation this behaviour calls
    pc,          \* position of the call: idle, posting, polling, polled, returned, raised, ...
    outbox,      \* the request built by the call and not yet sent
    nGeocode,    \* geocoder lookups issued so far
    nPost,       \* submission POSTs issued so far
    nStatusGet,  \* status GETs issued by the poll loop so far
    nFetch,      \* result-fetch GETs issued so far
    nRouteGet,   \* calculateroute GETs issued so far
    submission,  \* the response to the submission POST of async_matrix
    poll_url,    \* URL the poll loop GETs
    history,     \* the status GETs so far, in order: the URL and the response's code, truthiness, status
    result,      \* the last response received from the network
    args,        \* the arguments of the call
    road_names,  \* the list a maneuver summarizer builds
    entries,     \* the entries extracted from the steps so far, repeats included
    nSteps,      \* maneuver steps processed so far
    nLacking,    \* of these, the steps whose instruction lacked the opening span
    ret,         \* the value returned to the caller
    error        \* the exception raised to the caller

netVars == <<nGeocode, nPost, nStatusGet, nFetch, nRouteGet>>
pollVars == <<submission, poll_url, history, result>>
loopVars == <<road_names, entries, nSteps, nLacking>>

vars == <<op, pc, outbox, netVars, pollVars, args, loopVars, ret, error>>

----------------------------------------------------------------------------
(* Bounds of the model. *)

MaxPolls == 3        \* status GETs explored per async_matrix call
MaxWaypoints == 2    \* origins, and destinations, per matrix call
MaxSteps == 3        \* maneuver steps per summary
MaxInstrLen == 2     \* pieces per instruction string
MaxSegments == 2     \* public transport line segments per summary
MaxModes == 2        \* modes per route request
MaxManeuver == 2     \* steps per maneuver summarized in one call

----------------------------------------------------------------------------
(* Python values. *)

Absent == "<absent>"     \* a key that a JSON object does not have
None == [kind |-> "None"]
Str(pieces) == [kind |-> "str", value |-> pieces]

NoError == [type |-> "none", msg |-> <<>>]
Exc(type, msg) == [type |-> type, msg |-> msg]

\* "Error occured on " + sys._getframe(1).f_code.co_name: the name is the caller's
GenericHEREError == Exc("HEREError", <<"Error occured on ", "<caller>">>)

Last(s) == s[Len(s)]

API_KEY == "<key>"
URL_CALCULATE_MATRIX == "https://matrix.router.hereapi.com/v8/matrix"

\* Utils.build_url(url, extra_params={"apiKey": key})
build_url(url, key) == <<url, "?apiKey=", key>>

----------------------------------------------------------------------------
(* HTTP responses of the matrix endpoints: a status code and a body.  A    *)
(* body is either not JSON or a JSON object, given by the value (or        *)
(* absence) of each key the code reads.                                    *)

Body(json, matrixId, status, statusUrl, resultUrl, err, descr, title) ==
    [json |-> json, matrixId |-> matrixId, status |-> status, statusUrl |-> statusUrl,
     resultUrl |-> resultUrl, error |-> err, error_description |-> descr, title |-> title]

NotJson == Body(FALSE, Absent, Absent, Absent, Absent, Absent, Absent, Absent)
NoResponse == [status_code |-> 0, body |-> NotJson]

SubmitCodes == {202, 200, 400}
SubmitBodies ==
    {NotJson} \cup
    { Body(TRUE, m, s, u, Absent, Absent, Absent, Absent) :
        m \in {Absent, "m1"}, s \in {Absent, "accepted"}, u \in {Absent, "s1"} }

PollCodes == {200, 303, 401, 403, 404, 500, 204}

\* The keys a poll response may carry: the job keys on a status answer, the
\* keys of the provider's error documents on an error answer.
JobBodies ==
    { Body(TRUE, m, s, Absent, r, e, Absent, Absent) :
        m \in {Absent, "m1"}, s \in {Absent, "completed", "inProgress"},
        r \in {Absent, "r1"}, e \in {Absent, "", "E1"} }
AuthBodies ==
    { Body(TRUE, Absent, Absent, Absent, Absent, e, d, Absent) :
        e \in {Absent, "Unauthorized"}, d \in {Absent, "D1"} }
FaultBodies ==
    { Body(TRUE, Absent, s, Absent, Absent, Absent, Absent, t) :
        s \in {Absent, "NotFound"}, t \in {Absent, "T1"} }

PollBodies(code) ==
    {NotJson} \cup
    (IF code \in {401, 403} THEN AuthBodies
     ELSE IF code \in {404, 500} THEN FaultBodies
     ELSE JobBodies)

PollResponses ==
    UNION { { [status_code |-> c, body |-> b] : b \in PollBodies(c) } : c \in PollCodes }

\* a JSON object with no key at all is falsy in Python, any other is truthy
Truthy(body) ==
    body.json /\ \E k \in {"matrixId", "status", "statusUrl", "resultUrl",
                           "error", "error_description", "title"} : body[k] # Absent

Value(v) == [raised |-> FALSE, value |-> v, error |-> NoError]
Raise(e) == [raised |-> TRUE, value |-> FALSE, error |-> e]

\* the branch of __is_correct_response for status code 303: json_data is
\* returned, which polling.poll takes as success unless it is the empty object
see_other_never_success(json_data) == Value(FALSE)
see_other(json_data) == Value(Truthy(json_data))

\* the branch for status codes 401 and 403
unauthorized_ignored(json_data) == Value(FALSE)
unauthorized(json_data) ==
    IF json_data.error = Absent THEN Raise(Exc("KeyError", <<"error">>))
    ELSE IF json_data.error_description = Absent
    THEN Raise(Exc("KeyError", <<"error_description">>))
    ELSE Raise(Exc("HEREError",
             <<"Error occured on __is_correct_response: ", json_data.error,
               ", description: ", json_data.error_description>>))

\* RoutingApi.__is_correct_response: the check_success callback of polling.poll.
\* The value is the truthiness of what the callback returns.
is_correct_response_by_status(response) ==
    LET status_code == response.status_code
        json_data == response.body
    IN  IF ~json_data.json THEN Raise(Exc("JSONDecodeError", << >>))
        ELSE IF status_code = 303 THEN see_other(json_data)
        ELSE IF status_code = 200 THEN
            IF json_data.matrixId = Absent THEN Raise(Exc("KeyError", <<"matrixId">>))
            ELSE IF json_data.status = Absent THEN Raise(Exc("KeyError", <<"status">>))
            ELSE Value(json_data.status = "completed")
        ELSE IF status_code = 401 \/ status_code = 403 THEN unauthorized(json_data)
        ELSE IF status_code = 404 \/ status_code = 500 THEN
            IF json_data.title = Absent THEN Raise(Exc("KeyError", <<"title">>))
            ELSE IF json_data.status = Absent THEN Raise(Exc("KeyError", <<"status">>))
            ELSE Raise(Exc("HEREError",
                     <<"Error occured on __is_correct_response: ", json_data.title,
                       ", status: ", json_data.status>>))
        ELSE Value(FALSE)
is_correct_response(response) ==
    LET status_code == response.status_code
        json_data == response.body
    IN  IF ~json_data.json THEN Raise(Exc("JSONDecodeError", << >>))
        ELSE IF status_code = 303 THEN see_other(json_data)
        ELSE IF status_code = 200 THEN
            IF json_data.matrixId = Absent THEN Raise(Exc("KeyError", <<"matrixId">>))
            ELSE IF json_data.status = Absent THEN Raise(Exc("KeyError", <<"status">>))
            ELSE Value(FALSE)
        ELSE IF status_code = 401 \/ status_code = 403 THEN unauthorized(json_data)
        ELSE IF status_code = 404 \/ status_code = 500 THEN
            IF json_data.title = Absent THEN Raise(Exc("KeyError", <<"title">>))
            ELSE IF json_data.status = Absent THEN Raise(Exc("KeyError", <<"status">>))
            ELSE Raise(Exc("HEREError",
                     <<"Error occured on __is_correct_response: ", json_data.title,
                       ", status: ", json_data.status>>))
        ELSE Value(FALSE)

----------------------------------------------------------------------------
(* Waypoints and the geocoder.  A waypoint is a coordinate pair or a       *)
(* location name (isinstance(waypoint, str)).                              *)

Coord(lat, lng) == [str |-> FALSE, name |-> "", pos |-> <<lat, lng>>]
Named(name) == [str |-> TRUE, name |-> name, pos |-> <<0, 0>>]

Names == {"Berlin", "Atlantis", "Offline"}
Waypoints == {Coord(1, 2), Coord(3, 4)} \cup { Named(n) : n \in Names }

\* GeocoderApi.free_form(location_name): what the geocoder answers for a name.
\* It raises a HEREError, or returns a response whose items may be empty.
free_form(location_name) ==
    IF location_name = "Offline" THEN Raise(Exc("HEREError", <<"geocoder: ", location_name>>))
    ELSE IF location_name = "Atlantis" THEN Value(<< >>)
    ELSE Value(<< [position |-> [lat |-> 5, lng |-> 6]] >>)

\* RoutingApi._get_coordinates_for_location_name
get_coordinates_for_location_name(location_name) ==
    LET geocoder_response == free_form(location_name)
    IN  IF geocoder_response.raised
        THEN Raise(Exc("WaypointNotFoundError", geocoder_response.error.msg))
        ELSE IF Len(geocoder_response.value) = 0
        THEN Raise(Exc("IndexError", <<"list index out of range">>))
        ELSE LET coordinates == geocoder_response.value[1].position
             IN  Value(<<coordinates.lat, coordinates.lng>>)

\* the waypoint as a coordinate pair: looked up when it is a name
resolve(waypoint) ==
    IF waypoint.str THEN get_coordinates_for_location_name(waypoint.name)
    ELSE Value(waypoint.pos)

\* the loops of sync_matrix and async_matrix over origins or destinations:
\* the {lat, lng} objects built, the lookups issued and the exception, if any,
\* that ended the loop
RECURSIVE lat_long_list(_)
lat_long_list(ws) ==
    IF ws = << >> THEN [raised |-> FALSE, list |-> << >>, n |-> 0, error |-> NoError]
    ELSE LET w == resolve(ws[1])
             k == IF ws[1].str THEN 1 ELSE 0
         IN  IF w.raised
             THEN [raised |-> TRUE, list |-> << >>, n |-> k, error |-> w.error]
             ELSE LET rest == lat_long_list(Tail(ws))
                  IN  [raised |-> rest.raised,
                       list |-> <<[lat |-> w.value[1], lng |-> w.value[2]]>> \o rest.list,
                       n |-> k + rest.n,
                       error |-> rest.error]

WaypointLists == UNION { [1..n -> Waypoints] : n \in 1..MaxWaypoints }

----------------------------------------------------------------------------
(* The state before a call. *)

NoRequest == [kind |-> "none"]
NoArgs == [kind |-> "none"]

Init ==
    /\ op = "none"
    /\ pc = "idle"
    /\ outbox = NoRequest
    /\ nGeocode = 0
    /\ nPost = 0
    /\ nStatusGet = 0
    /\ nFetch = 0
    /\ nRouteGet = 0
    /\ submission = NoResponse
    /\ poll_url = << >>
    /\ history = << >>
    /\ result = NoResponse
    /\ args = NoArgs
    /\ road_names = << >>
    /\ entries = << >>
    /\ nSteps = 0
    /\ nLacking = 0
    /\ ret = None
    /\ error = NoError

----------------------------------------------------------------------------
(* async_matrix *)

\* async_matrix up to the POST: the waypoints are resolved, origins first, and
\* the request body is built
AsyncMatrixPrepare ==
    /\ pc = "idle"
    /\ \E origins \in WaypointLists, destinations \in WaypointLists :
         LET origin_list == lat_long_list(origins)
             destination_list == lat_long_list(destinations)
         IN  /\ op' = "async_matrix"
             /\ args' = [kind |-> "matrix", origins |-> origins,
                         destinations |-> destinations]
             /\ IF origin_list.raised
                THEN /\ pc' = "raised"
                     /\ error' = origin_list.error
                     /\ nGeocode' = origin_list.n
                     /\ outbox' = outbox
                ELSE IF destination_list.raised
                THEN /\ pc' = "raised"
                     /\ error' = destination_list.error
                     /\ nGeocode' = origin_list.n + destination_list.n
                     /\ outbox' = outbox
                ELSE /\ pc' = "posting"
                     /\ error' = error
                     /\ nGeocode' = origin_list.n + destination_list.n
                     /\ outbox' = [kind |-> "matrix",
                                   url |-> build_url(URL_CALCULATE_MATRIX, API_KEY),
                                   origins |-> origin_list.list,
                                   destinations |-> destination_list.list]
    /\ UNCHANGED <<nPost, nStatusGet, nFetch, nRouteGet, pollVars, loopVars, ret>>

\* what async_matrix does with the response to its POST: the URL to poll, or
\* the exception raised
submitted_any_code(response) ==
    LET json_data == response.body
    IN  IF ~json_data.json THEN Raise(Exc("JSONDecodeError", << >>))
        ELSE IF json_data.statusUrl = Absent THEN Raise(Exc("KeyError", <<"statusUrl">>))
        ELSE Value(build_url(json_data.statusUrl, API_KEY))
submitted(response) ==
    LET json_data == response.body
    IN  IF response.status_code = 202
        THEN IF ~json_data.json THEN Raise(Exc("JSONDecodeError", << >>))
             ELSE IF json_data.matrixId = Absent THEN Raise(Exc("KeyError", <<"matrixId">>))
             ELSE IF json_data.status = Absent THEN Raise(Exc("KeyError", <<"status">>))
             ELSE IF json_data.statusUrl = Absent THEN Raise(Exc("KeyError", <<"statusUrl">>))
             ELSE Value(build_url(json_data.statusUrl, API_KEY))
        ELSE Raise(GenericHEREError)

\* the POST of async_matrix and the start of the poll loop; the request and the
\* arguments it was built from are not read again once it is sent
AsyncMatrixPost ==
    /\ pc = "posting"
    /\ op = "async_matrix"
    /\ \E response \in { [status_code |-> c, body |-> b] : c \in SubmitCodes, b \in SubmitBodies } :
         LET s == submitted(response)
         IN  /\ nPost' = nPost + 1
             /\ submission' = response
             /\ result' = response
             /\ outbox' = NoRequest
             /\ args' = NoArgs
             /\ IF s.raised
                THEN /\ pc' = "raised"
                     /\ error' = s.error
                     /\ poll_url' = poll_url
                ELSE /\ pc' = "polling"
                     /\ error' = error
                     /\ poll_url' = s.value
    /\ UNCHANGED <<op, nGeocode, nStatusGet, nFetch, nRouteGet, history, loopVars, ret>>

\* one turn of polling.poll(lambda: requests.get(poll_url), check_success=
\* __is_correct_response, step=5, poll_forever=True): the GET, then the check;
\* a truthy check returns the response, a falsy one sleeps and polls again and
\* an exception of the check leaves poll and async_matrix
Poll ==
    /\ pc = "polling"
    /\ nStatusGet < MaxPolls
    /\ \E response \in PollResponses :
         LET c == is_correct_response(response)
         IN  /\ nStatusGet' = nStatusGet + 1
             /\ history' = Append(history, [url |-> poll_url,
                                            code |-> response.status_code,
                                            truthy |-> Truthy(response.body),
                                            status |-> response.body.status])
             /\ result' = response
             /\ IF c.raised
                THEN pc' = "raised" /\ error' = c.error
                ELSE IF c.value
                THEN pc' = "polled" /\ error' = error
                ELSE pc' = "polling" /\ error' = error
    /\ UNCHANGED <<op, outbox, nGeocode, nPost, nFetch, nRouteGet, submission, poll_url, args,
                   loopVars, ret>>

\* a turn of the same loop with no limit on the turns, as poll_forever=True
\* has it: the turns are counted up to MaxPolls (nStatusGet = MaxPolls stands
\* for "MaxPolls or more") and history keeps the last of them only
PollForever ==
    /\ pc = "polling"
    /\ \E response \in PollResponses :
         LET c == is_correct_response(response)
         IN  /\ nStatusGet' = IF nStatusGet < MaxPolls THEN nStatusGet + 1 ELSE MaxPolls
             /\ history' = << [url |-> poll_url,
                               code |-> response.status_code,
                               truthy |-> Truthy(response.body),
                               status |-> response.body.status] >>
             /\ result' = response
             /\ IF c.raised
                THEN pc' = "raised" /\ error' = c.error
                ELSE IF c.value
                THEN pc' = "polled" /\ error' = error
                ELSE pc' = "polling" /\ error' = error
    /\ UNCHANGED <<op, outbox, nGeocode, nPost, nFetch, nRouteGet, submission, poll_url, args,
                   loopVars, ret>>

\* self.__download_file(): the method is declared as __download_file(url, filename)
\* and is called on self with no argument, so the call raises TypeError before
\* any request is made; fetches is the number of GETs it issued
download_file_call(download_url) ==
    [raised |-> TRUE, error |-> Exc("TypeError", <<"missing argument: filename">>),
     fetches |-> 0]

NoFetch(r) == [raised |-> r.raised, error |-> r.error, fetches |-> 0]

\* the body of the try statement that follows the poll loop
after_poll_try(poll_data) ==
    IF ~poll_data.json THEN NoFetch(Raise(Exc("JSONDecodeError", << >>)))
    ELSE IF poll_data.matrixId = Absent THEN NoFetch(Raise(Exc("KeyError", <<"matrixId">>)))
    ELSE IF poll_data.status = Absent THEN NoFetch(Raise(Exc("KeyError", <<"status">>)))
    ELSE IF poll_data.status = "completed"
    THEN IF poll_data.resultUrl = Absent THEN NoFetch(Raise(Exc("KeyError", <<"resultUrl">>)))
         ELSE download_file_call(build_url(poll_data.resultUrl, API_KEY))
    ELSE IF poll_data.error = Absent THEN NoFetch(Raise(Exc("KeyError", <<"error">>)))
    ELSE IF poll_data.error # "" THEN NoFetch(Raise(Exc("HEREError", <<poll_data.error>>)))
    ELSE NoFetch(Value(FALSE))

\* the try statement with its bare except clause: whatever the body raises,
\* the HEREError it raised included, is replaced by the generic HEREError
after_poll(poll_data) ==
    LET t == after_poll_try(poll_data)
    IN  IF t.raised
        THEN [raised |-> TRUE, error |-> GenericHEREError, fetches |-> t.fetches]
        ELSE t

\* async_matrix after the poll loop returned a response
AsyncMatrixFinish ==
    /\ pc = "polled"
    /\ LET a == after_poll(result.body)
       IN  /\ nFetch' = nFetch + a.fetches
           /\ IF a.raised
              THEN pc' = "raised" /\ error' = a.error /\ ret' = ret
              ELSE pc' = "returned" /\ error' = error /\ ret' = None
    /\ UNCHANGED <<op, outbox, nGeocode, nPost, nStatusGet, nRouteGet, pollVars,
                   args, loopVars>>

----------------------------------------------------------------------------
(* sync_matrix *)

\* Utils.build_url(url, extra_params={"apiKey": key, "async": "false"})
build_url_sync(url, key) == <<url, "?apiKey=", key, "&async=", "false">>

\* sync_matrix up to the POST: the waypoints are resolved, origins first, and
\* the request body is built; its destinations are assigned origin_list
SyncMatrixPrepare ==
    /\ pc = "idle"
    /\ \E origins \in WaypointLists, destinations \in WaypointLists :
         LET origin_list == lat_long_list(origins)
             destination_list == lat_long_list(destinations)
         IN  /\ op' = "sync_matrix"
             /\ args' = [kind |-> "matrix", origins |-> origins,
                         destinations |-> destinations]
             /\ IF origin_list.raised
                THEN /\ pc' = "raised"
                     /\ error' = origin_list.error
                     /\ nGeocode' = origin_list.n
                     /\ outbox' = outbox
                ELSE IF destination_list.raised
                THEN /\ pc' = "raised"
                     /\ error' = destination_list.error
                     /\ nGeocode' = origin_list.n + destination_list.n
                     /\ outbox' = outbox
                ELSE /\ pc' = "posting"
                     /\ error' = error
                     /\ nGeocode' = origin_list.n + destination_list.n
                     /\ outbox' = [kind |-> "matrix",
                                   url |-> build_url_sync(URL_CALCULATE_MATRIX, API_KEY),
                                   origins |-> origin_list.list,
                                   destinations |-> origin_list.list]
    /\ UNCHANGED <<nPost, nStatusGet, nFetch, nRouteGet, pollVars, loopVars, ret>>

\* the answers to the POST of sync_matrix: a body that is not JSON, or a JSON
\* object that has a matrix or has none
MatrixAnswers == { [json |-> FALSE, matrix |-> FALSE],
                   [json |-> TRUE, matrix |-> FALSE],
                   [json |-> TRUE, matrix |-> TRUE] }

\* what sync_matrix does with the response to its POST
matrix_result(answer) ==
    IF ~answer.json THEN Raise(Exc("JSONDecodeError", << >>))
    ELSE IF answer.matrix THEN Value([kind |-> "json_data", matrix |-> TRUE])
    ELSE Raise(GenericHEREError)

\* the POST of sync_matrix and the end of the call
SyncMatrixPost ==
    /\ pc = "posting"
    /\ op = "sync_matrix"
    /\ \E answer \in MatrixAnswers :
         LET r == matrix_result(answer)
         IN  IF r.raised
             THEN pc' = "raised" /\ error' = r.error /\ ret' = ret
             ELSE pc' = "returned" /\ error' = error /\ ret' = r.value
    /\ nPost' = nPost + 1
    /\ outbox' = NoRequest
    /\ args' = NoArgs
    /\ UNCHANGED <<op, nGeocode, nStatusGet, nFetch, nRouteGet, pollVars, loopVars>>

----------------------------------------------------------------------------
(* The route summarizers.  An instruction string is a sequence of pieces:  *)
(* the three tags the code splits on, the two parentheses it removes, and  *)
(* ordinary text.                                                          *)

NUMBER == "<span class=\"number\">"
NEXT_STREET == "<span class=\"next-street\">"
SPAN_END == "</span>"

Pieces == {NUMBER, NEXT_STREET, SPAN_END, "(", ")", "A1"}
Instructions == UNION { [1..n -> Pieces] : n \in 0..MaxInstrLen }

\* str.split(sep): the parts of s between the occurrences of sep, at least one part
RECURSIVE split(_, _)
split(s, sep) ==
    IF \A i \in DOMAIN s : s[i] # sep THEN << s >>
    ELSE LET k == CHOOSE i \in DOMAIN s : s[i] = sep /\ \A j \in 1..(i - 1) : s[j] # sep
         IN  << SubSeq(s, 1, k - 1) >> \o split(SubSeq(s, k + 1, Len(s)), sep)

\* list[i], Python's indexing from 0: IndexError beyond the end
index(list, i) ==
    IF i + 1 <= Len(list) THEN Value(list[i + 1])
    ELSE Raise(Exc("IndexError", <<"list index out of range">>))

\* s.replace("(", "").replace(")", "")
remove_parentheses(s) == SelectSeq(SelectSeq(s, LAMBDA x : x # "("), LAMBDA x : x # ")")

\* instruction.split(tag)[1].split("</span>")[0].replace("(", "").replace(")", "")
span_text(instruction, tag) ==
    LET after == index(split(instruction, tag), 1)
    IN  IF after.raised THEN after
        ELSE LET text == index(split(after.value, SPAN_END), 0)
             IN  IF text.raised THEN text ELSE Value(remove_parentheses(text.value))

\* "Only add if it does not repeat": the comparison is with the last entry kept
add_if_not_seen(names, road_name) ==
    IF \A i \in DOMAIN names : names[i] # road_name THEN Append(names, road_name) ELSE names
add_if_not_repeat(names, road_name) ==
    IF names = << >> \/ Last(names) # road_name THEN Append(names, road_name) ELSE names

Kept(names, extracted) == [raised |-> FALSE, error |-> NoError, names |-> names,
                           extracted |-> extracted]
Skipped(names) == Kept(names, << >>)
Escaped(names, e) == [raised |-> TRUE, error |-> e, names |-> names, extracted |-> << >>]

\* one turn of the loop of _get_route_from_non_vehicle_maneuver: the list after
\* the step, the entry extracted (as a list of none or one) and the exception
\* that leaves the loop, if any
non_vehicle_step(names, instruction) ==
    LET road_name == span_text(instruction, NEXT_STREET)
    IN  IF road_name.raised
        THEN IF road_name.error.type = "IndexError" THEN Skipped(names)
             ELSE Escaped(names, road_name.error)
        ELSE Kept(add_if_not_repeat(names, road_name.value), <<road_name.value>>)

\* one turn of the loop of _get_route_from_vehicle_maneuver
vehicle_step_uncaught(names, instruction) ==
    LET road_number == span_text(instruction, NUMBER)
    IN  IF road_number.raised THEN Escaped(names, road_number.error)
        ELSE Kept(add_if_not_repeat(names, road_number.value), <<road_number.value>>)
vehicle_step_number_only(names, instruction) ==
    LET road_number == span_text(instruction, NUMBER)
    IN  IF road_number.raised
        THEN IF road_number.error.type = "IndexError" THEN Skipped(names)
             ELSE Escaped(names, road_number.error)
        ELSE Kept(add_if_not_repeat(names, road_number.value), <<road_number.value>>)
vehicle_step(names, instruction) ==
    LET road_number == span_text(instruction, NUMBER)
        street_name == span_text(instruction, NEXT_STREET)
    IN  IF road_number.raised
        THEN IF road_number.error.type = "IndexError" THEN Skipped(names)
             ELSE Escaped(names, road_number.error)
        ELSE LET road_name ==
                     IF street_name.raised THEN road_number.value
                     ELSE road_number.value \o <<" - ">> \o street_name.value
             IN  IF street_name.raised /\ street_name.error.type # "IndexError"
                 THEN Escaped(names, street_name.error)
                 ELSE Kept(add_if_not_repeat(names, road_name), <<road_name>>)

\* "; ".join(list(map(str, names)))
RECURSIVE join(_)
join(names) ==
    IF names = << >> THEN << >>
    ELSE IF Len(names) = 1 THEN names[1]
    ELSE names[1] \o <<"; ">> \o join(Tail(names))

HasSpan(instruction, tag) == \E i \in DOMAIN instruction : instruction[i] = tag

\* a turn of a summarizer's loop on the next step of the maneuver
LoopTurn(name, tag, step) ==
    /\ pc \in {"idle", "summarizing"}
    /\ op \in {"none", name}
    /\ nSteps < MaxSteps
    /\ op' = name
    /\ nSteps' = nSteps + 1
    /\ nLacking' = IF HasSpan(step.instruction, tag) THEN nLacking ELSE nLacking + 1
    /\ UNCHANGED <<outbox, netVars, pollVars, args, ret>>

VehicleStep ==
    /\ pc \in {"idle", "summarizing"}
    /\ \E instruction \in Instructions :
        LET t == vehicle_step(road_names, instruction)
        IN  /\ LoopTurn("_get_route_from_vehicle_maneuver", NUMBER,
                        [instruction |-> instruction])
            /\ road_names' = t.names
            /\ entries' = entries \o t.extracted
            /\ IF t.raised THEN pc' = "raised" /\ error' = t.error
               ELSE pc' = "summarizing" /\ error' = error

NonVehicleStep ==
    /\ pc \in {"idle", "summarizing"}
    /\ \E instruction \in Instructions :
        LET t == non_vehicle_step(road_names, instruction)
        IN  /\ LoopTurn("_get_route_from_non_vehicle_maneuver", NEXT_STREET,
                        [instruction |-> instruction])
            /\ road_names' = t.names
            /\ entries' = entries \o t.extracted
            /\ IF t.raised THEN pc' = "raised" /\ error' = t.error
               ELSE pc' = "summarizing" /\ error' = error

\* the end of the loop: the list is joined and returned
LoopReturn(name) ==
    /\ pc \in {"idle", "summarizing"}
    /\ op \in {"none", name}
    /\ op' = name
    /\ pc' = "returned"
    /\ ret' = Str(join(road_names))
    /\ UNCHANGED <<outbox, netVars, pollVars, args, loopVars, error>>

VehicleReturn == LoopReturn("_get_route_from_vehicle_maneuver")
NonVehicleReturn == LoopReturn("_get_route_from_non_vehicle_maneuver")

\* _get_route_from_public_transport_line
LineInfos == { [lineName |-> l, destination |-> d] : l \in {"U1", "U2"}, d \in {"X", "Y"} }
LineSegments == UNION { [1..n -> LineInfos] : n \in 0..MaxSegments }

RECURSIVE lines_of(_)
lines_of(public_transport_line_segment) ==
    IF public_transport_line_segment = << >> THEN << >>
    ELSE LET line_info == public_transport_line_segment[1]
         IN  << <<line_info.lineName, " - ", line_info.destination>> >>
             \o lines_of(Tail(public_transport_line_segment))

get_route_from_public_transport_line_no_repeat(public_transport_line_segment) ==
    LET lines == lines_of(public_transport_line_segment)
        after[i \in 0..Len(lines)] ==
            IF i = 0 THEN << >> ELSE add_if_not_repeat(after[i - 1], lines[i])
    IN  join(after[Len(lines)])
get_route_from_public_transport_line(public_transport_line_segment) ==
    join(lines_of(public_transport_line_segment))

PublicTransportLine ==
    /\ pc = "idle"
    /\ \E segments \in LineSegments :
         /\ args' = [kind |-> "lines", segments |-> segments]
         /\ ret' = Str(get_route_from_public_transport_line(segments))
    /\ op' = "_get_route_from_public_transport_line"
    /\ pc' = "returned"
    /\ UNCHANGED <<outbox, netVars, pollVars, loopVars, error>>

----------------------------------------------------------------------------
(* The error classifier.  A provider error payload is given by the value   *)
(* (or absence) of the four keys the classifier reads.                     *)

Subtypes == {"InvalidInputData", "WaypointNotFound", "NoRouteFound", "LinkIdNotFound",
             "RouteNotReconstructed"}

ErrorPayloads ==
    [error : {Absent, "Unauthorized", "Forbidden"},
     error_description : {Absent, "bad key"},
     subtype : {Absent, "Unknown"} \cup Subtypes,
     details : {Absent, "d1"}]

\* error_from_routing_service_error: the error object returned, or the
\* exception that the function itself raises
error_from_routing_service_error(json_data) ==
    IF json_data.error # Absent /\ json_data.error = "Unauthorized"
    THEN IF json_data.error_description = Absent
         THEN Raise(Exc("KeyError", <<"error_description">>))
         ELSE Value(Exc("InvalidCredentialsError", <<json_data.error_description>>))
    ELSE IF json_data.subtype # Absent
    THEN IF json_data.details = Absent THEN Raise(Exc("KeyError", <<"details">>))
         ELSE IF json_data.subtype = "InvalidInputData"
         THEN Value(Exc("InvalidInputDataError", <<json_data.details>>))
         ELSE IF json_data.subtype = "WaypointNotFound"
         THEN Value(Exc("WaypointNotFoundError", <<json_data.details>>))
         ELSE IF json_data.subtype = "NoRouteFound"
         THEN Value(Exc("NoRouteFoundError", <<json_data.details>>))
         ELSE IF json_data.subtype = "LinkIdNotFound"
         THEN Value(Exc("LinkIdNotFoundError", <<json_data.details>>))
         ELSE IF json_data.subtype = "RouteNotReconstructed"
         THEN Value(Exc("RouteNotReconstructedError", <<json_data.details>>))
         ELSE Value(GenericHEREError)
    ELSE Value(GenericHEREError)

ErrorFromRoutingServiceError ==
    /\ pc = "idle"
    /\ \E json_data \in ErrorPayloads :
         LET e == error_from_routing_service_error(json_data)
         IN  /\ args' = [kind |-> "payload", json_data |-> json_data]
             /\ IF e.raised
                THEN pc' = "raised" /\ error' = e.error /\ ret' = ret
                ELSE pc' = "returned" /\ error' = error
                     /\ ret' = [kind |-> "error", value |-> e.value]
    /\ op' = "error_from_routing_service_error"
    /\ UNCHANGED <<outbox, netVars, pollVars, loopVars>>

----------------------------------------------------------------------------
(* _route and the public operations that call it. *)

NoTime == "<None>"
Times == {NoTime, "2013-07-04T17:00:00+02"}

RouteModes == {"car", "truck", "publicTransport", "publicTransportTimeTable",
               "pedestrian", "bicycle", "fastest"}
ModeLists == UNION { [1..n -> RouteModes] : n \in 0..MaxModes }

\* RoutingApi.__prepare_mode_values: the modes, each followed by ";", less the
\* last character
RECURSIVE mode_values_of(_)
mode_values_of(modes) ==
    IF modes = << >> THEN << >> ELSE <<modes[1], ";">> \o mode_values_of(Tail(modes))
prepare_mode_values(modes) ==
    LET mode_values == mode_values_of(modes)
    IN  IF mode_values = << >> THEN << >> ELSE SubSeq(mode_values, 1, Len(mode_values) - 1)

\* RoutingApi.__list_to_waypoint
list_to_waypoint(waypoint_a) == <<"geo!", waypoint_a[1], ",", waypoint_a[2]>>

\* _route up to its GET: the lookups issued, and the request built or the
\* exception raised
route_request(waypoint_a, waypoint_b, modes, departure, arrival) ==
    LET a == resolve(waypoint_a)
        b == resolve(waypoint_b)
        na == IF waypoint_a.str THEN 1 ELSE 0
        nb == IF waypoint_b.str THEN 1 ELSE 0
    IN  IF a.raised THEN [raised |-> TRUE, error |-> a.error, n |-> na, data |-> NoRequest]
        ELSE IF b.raised
        THEN [raised |-> TRUE, error |-> b.error, n |-> na + nb, data |-> NoRequest]
        ELSE IF departure # NoTime /\ arrival # NoTime
        THEN [raised |-> TRUE,
              error |-> Exc("HEREError", <<"Specify either departure or arrival, not both.">>),
              n |-> na + nb, data |-> NoRequest]
        ELSE [raised |-> FALSE, error |-> NoError, n |-> na + nb,
              data |-> [kind |-> "route",
                        waypoint0 |-> list_to_waypoint(a.value),
                        waypoint1 |-> list_to_waypoint(b.value),
                        mode |-> prepare_mode_values(modes),
                        apikey |-> API_KEY,
                        departure |-> departure,
                        arrival |-> arrival,
                        modes |-> modes]]

\* a public operation, called with the arguments call, up to the GET of the
\* _route it calls
RouteCallWith(name, call, waypoint_a, waypoint_b, modes, departure, arrival) ==
    LET r == route_request(waypoint_a, waypoint_b, modes, departure, arrival)
    IN  /\ op' = name
        /\ args' = call
        /\ nGeocode' = r.n
        /\ IF r.raised
           THEN pc' = "raised" /\ error' = r.error /\ outbox' = outbox
           ELSE pc' = "getting" /\ error' = error /\ outbox' = r.data
        /\ UNCHANGED <<nPost, nStatusGet, nFetch, nRouteGet, pollVars, loopVars, ret>>

RouteCall(name, waypoint_a, waypoint_b, modes, departure, arrival) ==
    RouteCallWith(name,
                  [kind |-> "route", waypoint_a |-> waypoint_a, waypoint_b |-> waypoint_b,
                   departure |-> departure, arrival |-> arrival],
                  waypoint_a, waypoint_b, modes, departure, arrival)

\* public_transport_timetable(waypoint_a, waypoint_b, combine_change, modes,
\* departure, arrival); UseDefault stands for modes=None
UseDefault == << "<None>" >>

PublicTransportTimetable ==
    /\ pc = "idle"
    /\ \E waypoint_a \in Waypoints, waypoint_b \in Waypoints,
          modes \in ModeLists \cup {UseDefault}, departure \in Times, arrival \in Times :
        RouteCall("public_transport_timetable", waypoint_a, waypoint_b,
                  IF modes = UseDefault THEN <<"publicTransportTimeTable", "fastest">>
                  ELSE modes,
                  departure, arrival)

\* intermediate_route(waypoint_a, waypoint_b, waypoint_c, modes, departure):
\* it returns self._route(waypoint_a, waypoint_b, modes, departure)
IntermediateModes == {UseDefault} \cup { modes \in ModeLists : Len(modes) <= 1 }

IntermediateRoute ==
    /\ pc = "idle"
    /\ \E waypoint_a \in Waypoints, waypoint_b \in Waypoints, waypoint_c \in Waypoints,
          modes \in IntermediateModes, departure \in Times :
        RouteCallWith("intermediate_route",
                      [kind |-> "route", waypoint_a |-> waypoint_a,
                       waypoint_b |-> waypoint_b, waypoint_c |-> waypoint_c,
                       departure |-> departure, arrival |-> NoTime],
                      waypoint_a, waypoint_b,
                      IF modes = UseDefault THEN <<"car", "fastest">> ELSE modes,
                      departure, NoTime)

\* the summarizers on a whole maneuver: after[i] is the outcome of the loop's
\* first i turns, a turn that raises ending the loop
get_route_from_vehicle_maneuver(maneuver) ==
    LET after[i \in 0..Len(maneuver)] ==
            IF i = 0 THEN Kept(<< >>, << >>)
            ELSE IF after[i - 1].raised THEN after[i - 1]
            ELSE vehicle_step(after[i - 1].names, maneuver[i].instruction)
        l == after[Len(maneuver)]
    IN  IF l.raised THEN Raise(l.error) ELSE Value(join(l.names))

get_route_from_non_vehicle_maneuver(maneuver) ==
    LET after[i \in 0..Len(maneuver)] ==
            IF i = 0 THEN Kept(<< >>, << >>)
            ELSE IF after[i - 1].raised THEN after[i - 1]
            ELSE non_vehicle_step(after[i - 1].names, maneuver[i].instruction)
        l == after[Len(maneuver)]
    IN  IF l.raised THEN Raise(l.error) ELSE Value(join(l.names))

\* Instructions as the routing service writes them: text with a number span,
\* a next-street span, both in either order, or neither
NumberSpans == { << >>, <<NUMBER, "A1", SPAN_END>>, <<NUMBER, "(", "B2", ")", SPAN_END>> }
StreetSpans == { << >>, <<NEXT_STREET, "Main", SPAN_END>>,
                 <<NEXT_STREET, "(", "Elm", ")", SPAN_END>> }
MarkedInstructions ==
    { <<"Take ">> \o n \o <<" toward ">> \o t \o <<".">> : n \in NumberSpans, t \in StreetSpans }
    \cup { <<"Turn onto ">> \o t \o <<" for ">> \o n : n \in NumberSpans, t \in StreetSpans }
MarkedManeuvers ==
    UNION { [1..n -> { [instruction |-> i] : i \in MarkedInstructions }] : n \in 0..MaxManeuver }

\* a call of _get_route_from_vehicle_maneuver(maneuver)
VehicleManeuver ==
    /\ pc = "idle"
    /\ \E maneuver \in MarkedManeuvers :
         LET route == get_route_from_vehicle_maneuver(maneuver)
         IN  /\ args' = [kind |-> "maneuver", maneuver |-> maneuver]
             /\ IF route.raised
                THEN pc' = "raised" /\ error' = route.error /\ ret' = ret
                ELSE pc' = "returned" /\ error' = error /\ ret' = Str(route.value)
    /\ op' = "_get_route_from_vehicle_maneuver(maneuver)"
    /\ UNCHANGED <<outbox, netVars, pollVars, loopVars>>

\* The answers to the calculateroute GET: a body that is not JSON, an error
\* payload, or a body with a response, given by the maneuver of the first leg
\* of the first route and by its publicTransportLine, either of which may be
\* missing.
Step(instruction) == [instruction |-> instruction]
Maneuvers ==
    { << >>,
      << Step(<<"Take ", NUMBER, "A1", SPAN_END, " to ", NEXT_STREET, "Main", SPAN_END>>) >>,
      << Step(<<"Walk on ", NEXT_STREET, "(Main)", SPAN_END>>),
         Step(<<"Go on ", NUMBER, "B2", SPAN_END>>) >> }
Lines == { << >>, << [lineName |-> "U1", destination |-> "X"] >> }

RouteAnswers ==
    { [json |-> FALSE, response |-> FALSE] }
    \cup { [json |-> TRUE, response |-> FALSE, payload |-> p] :
             p \in { q \in ErrorPayloads : q.error_description = Absent
                                           /\ q.subtype \in {Absent, "NoRouteFound"} } }
    \cup { [json |-> TRUE, response |-> TRUE, hasManeuver |-> hm, maneuver |-> m,
            hasLine |-> hl, publicTransportLine |-> l] :
             hm \in BOOLEAN, m \in Maneuvers, hl \in BOOLEAN, l \in Lines }

Includes(modes, wanted) == \E i \in DOMAIN modes : modes[i] \in wanted

\* _route from its GET on: RoutingApi.__get, then the summary by the modes
routed_line_first(answer, modes) ==
    IF ~answer.json THEN Raise(Exc("JSONDecodeError", << >>))
    ELSE IF ~answer.response
    THEN LET e == error_from_routing_service_error(answer.payload)
         IN  IF e.raised THEN e ELSE Raise(e.value)
    ELSE IF ~answer.hasManeuver THEN Raise(Exc("KeyError", <<"maneuver">>))
    ELSE IF Includes(modes, {"publicTransport", "publicTransportTimeTable"})
    THEN IF ~answer.hasLine THEN Raise(Exc("KeyError", <<"publicTransportLine">>))
         ELSE Value([kind |-> "RoutingResponse", extractor |-> "line",
                     route_short |-> Str(get_route_from_public_transport_line(
                                             answer.publicTransportLine))])
    ELSE IF Includes(modes, {"car", "truck"})
    THEN LET r == get_route_from_vehicle_maneuver(answer.maneuver)
         IN  IF r.raised THEN r
             ELSE Value([kind |-> "RoutingResponse", extractor |-> "vehicle",
                         route_short |-> Str(r.value)])
    ELSE IF Includes(modes, {"pedestrian", "bicycle"})
    THEN LET r == get_route_from_non_vehicle_maneuver(answer.maneuver)
         IN  IF r.raised THEN r
             ELSE Value([kind |-> "RoutingResponse", extractor |-> "non_vehicle",
                         route_short |-> Str(r.value)])
    ELSE Value([kind |-> "RoutingResponse", extractor |-> "none", route_short |-> None])
routed(answer, modes) ==
    IF ~answer.json THEN Raise(Exc("JSONDecodeError", << >>))
    ELSE IF ~answer.response
    THEN LET e == error_from_routing_service_error(answer.payload)
         IN  IF e.raised THEN e ELSE Raise(e.value)
    ELSE IF ~answer.hasManeuver THEN Raise(Exc("KeyError", <<"maneuver">>))
    ELSE IF Includes(modes, {"car", "truck"})
    THEN LET r == get_route_from_vehicle_maneuver(answer.maneuver)
         IN  IF r.raised THEN r
             ELSE Value([kind |-> "RoutingResponse", extractor |-> "vehicle",
                         route_short |-> Str(r.value)])
    ELSE IF Includes(modes, {"publicTransport", "publicTransportTimeTable"})
    THEN IF ~answer.hasLine THEN Raise(Exc("KeyError", <<"publicTransportLine">>))
         ELSE Value([kind |-> "RoutingResponse", extractor |-> "line",
                     route_short |-> Str(get_route_from_public_transport_line(
                                             answer.publicTransportLine))])
    ELSE IF Includes(modes, {"pedestrian", "bicycle"})
    THEN LET r == get_route_from_non_vehicle_maneuver(answer.maneuver)
         IN  IF r.raised THEN r
             ELSE Value([kind |-> "RoutingResponse", extractor |-> "non_vehicle",
                         route_short |-> Str(r.value)])
    ELSE Value([kind |-> "RoutingResponse", extractor |-> "none", route_short |-> None])

\* the GET of _route and the rest of the call
RouteGet ==
    /\ pc = "getting"
    /\ \E answer \in RouteAnswers :
         LET r == routed(answer, outbox.modes)
         IN  /\ result' = answer
             /\ IF r.raised
                THEN pc' = "raised" /\ error' = r.error /\ ret' = ret
                ELSE pc' = "returned" /\ error' = error /\ ret' = r.value
    /\ nRouteGet' = nRouteGet + 1
    /\ UNCHANGED <<op, outbox, nGeocode, nPost, nStatusGet, nFetch, submission, poll_url,
                   history, args, loopVars>>

----------------------------------------------------------------------------
Next ==
    \/ AsyncMatrixPrepare
    \/ AsyncMatrixPost
    \/ Poll
    \/ AsyncMatrixFinish
    \/ SyncMatrixPrepare
    \/ SyncMatrixPost
    \/ VehicleStep
    \/ VehicleReturn
    \/ NonVehicleStep
    \/ NonVehicleReturn
    \/ VehicleManeuver
    \/ PublicTransportLine
    \/ ErrorFromRoutingServiceError
    \/ PublicTransportTimetable
    \/ IntermediateRoute
    \/ RouteGet

Spec == Init /\ [][Next]_vars

\* A call of async_matrix with its poll loop unbounded.  The fairness is what
\* running the call gives: polling.poll sleeps `step` seconds and issues the
\* next GET for as long as the check is falsy, and the statements after the
\* POST and after the loop are executed once reached.
AsyncMatrixNext ==
    \/ AsyncMatrixPrepare
    \/ AsyncMatrixPost
    \/ PollForever
    \/ AsyncMatrixFinish

AsyncMatrixSpec ==
    /\ Init
    /\ [][AsyncMatrixNext]_vars
    /\ WF_vars(AsyncMatrixPost)
    /\ WF_vars(PollForever)
    /\ WF_vars(AsyncMatrixFinish)

----------------------------------------------------------------------------
(* Properties. *)

Finished == pc \in {"returned", "raised"}
InMessage(piece) == \E i \in DOMAIN error.msg : error.msg[i] = piece

\* the poll loop of async_matrix returned a response (the last one received)
PollReturned ==
    /\ op = "async_matrix"
    /\ nStatusGet > 0
    /\ pc \in {"polled", "returned", "raised"}
    /\ LET c == is_correct_response(result) IN ~c.raised /\ c.value

\* C1: when the poll loop of async_matrix ends on a response whose body
\* reports status "completed" (and names a resultUrl), the call issues exactly
\* one result-fetch request, and no result-fetch request is issued before a
\* completed status was received.
C1_OneFetchWhenCompleted ==
    /\ nFetch > 0 => \E i \in DOMAIN history : history[i].status = "completed"
    /\ ( /\ PollReturned
         /\ Finished
         /\ result.body.matrixId # Absent
         /\ result.body.status = "completed"
         /\ result.body.resultUrl # Absent )
       => nFetch = 1

\* C2, as the specification states it: a poll response with status code 303
\* (and a JSON body that is not empty) does not end polling.
C2_RedirectKeepsPolling ==
    (history # << >> /\ Last(history).code = 303 /\ Last(history).truthy)
        => pc = "polling"

\* C2, amended: a poll response with status code 303 and a JSON body that is
\* not empty ends polling at once, and the poll loop returns on no other
\* response; a 200 response that carries matrixId and status does not end
\* polling, whatever its status field says; so k such responses followed by a
\* 303 response cause exactly k + 1 status GETs.
C2_SeeOtherEndsPolling ==
    /\ nStatusGet = Len(history)
    /\ \A i \in DOMAIN history :
         (history[i].code = 303 /\ history[i].truthy)
             => i = Len(history) /\ pc \in {"polled", "returned", "raised"}
    /\ pc = "polled" => history # << >> /\ Last(history).code = 303
    /\ ( /\ history # << >>
         /\ Last(history).code = 200
         /\ result.body.json
         /\ result.body.matrixId # Absent
         /\ result.body.status # Absent )
       => pc = "polling"

C2_Witness ==
    /\ pc = "polled"
    /\ Len(history) = 3
    /\ history[1].code = 200
    /\ history[2].code = 200
    /\ history[2].status = "completed"
    /\ history[3].code = 303
    /\ nStatusGet = 3

\* C3: a route request with both departure and arrival set raises an error
\* and has issued no network call, geocoder lookup included, whether the
\* waypoints are coordinates or names.
C3_RejectedBeforeAnyNetworkCall ==
    ( /\ op = "public_transport_timetable"
      /\ args.kind = "route"
      /\ args.departure # NoTime
      /\ args.arrival # NoTime )
    => pc = "raised" /\ nGeocode = 0 /\ nRouteGet = 0

\* C4: when polling ends on a body whose status is not "completed" and whose
\* error field is not empty, the error raised to the caller of async_matrix
\* contains the content of that field.
C4_FailedJobErrorCarriesField ==
    ( /\ PollReturned
      /\ Finished
      /\ result.body.matrixId # Absent
      /\ result.body.status \notin {Absent, "completed"}
      /\ result.body.error \notin {Absent, ""} )
    => pc = "raised" /\ InMessage(result.body.error)

\* C5: a poll response with status code 401 or 403, on the first poll or on a
\* later one, is the last response polled: the call has raised, no status GET
\* follows it and no result-fetch is issued; when its body carries the
\* provider's error and error_description, the error raised is a HEREError
\* whose message contains both.
C5_AuthFailureEndsPolling ==
    \A i \in DOMAIN history :
        history[i].code \in {401, 403} =>
            /\ i = Len(history)
            /\ nStatusGet = i
            /\ nFetch = 0
            /\ pc = "raised"
            /\ ( /\ result.body.json
                 /\ result.body.error # Absent
                 /\ result.body.error_description # Absent )
               => /\ error.type = "HEREError"
                  /\ InMessage(result.body.error)
                  /\ InMessage(result.body.error_description)

C5_Witness ==
    /\ Len(history) = 2
    /\ history[1].code = 200
    /\ history[2].code = 403
    /\ pc = "raised"
    /\ error.type = "HEREError"
    /\ result.body.error = "Unauthorized"
    /\ InMessage("D1")

\* the error kind the specification gives for a provider error payload
C6_Expected(p) ==
    IF p.error = "Unauthorized" THEN Exc("InvalidCredentialsError", <<p.error_description>>)
    ELSE IF p.subtype = "InvalidInputData" THEN Exc("InvalidInputDataError", <<p.details>>)
    ELSE IF p.subtype = "WaypointNotFound" THEN Exc("WaypointNotFoundError", <<p.details>>)
    ELSE IF p.subtype = "NoRouteFound" THEN Exc("NoRouteFoundError", <<p.details>>)
    ELSE IF p.subtype = "LinkIdNotFound" THEN Exc("LinkIdNotFoundError", <<p.details>>)
    ELSE IF p.subtype = "RouteNotReconstructed"
    THEN Exc("RouteNotReconstructedError", <<p.details>>)
    ELSE GenericHEREError

\* C6: for every provider error payload error_from_routing_service_error
\* returns, and never raises, the one error kind of the rule: InvalidCredentials
\* for error "Unauthorized" whatever the subtype, else the kind named by a
\* subtype of the table, else the generic kind.
C6_ClassifierReturnsRuleKind ==
    (op = "error_from_routing_service_error" /\ args.kind = "payload")
        => /\ pc = "returned"
           /\ ret.kind = "error"
           /\ ret.value = C6_Expected(args.json_data)

IsSummarizer ==
    op \in {"_get_route_from_vehicle_maneuver", "_get_route_from_non_vehicle_maneuver"}

\* a list with each run of equal consecutive elements collapsed to one
KeptIndices(s) == { i \in DOMAIN s : i = 1 \/ s[i] # s[i - 1] }
Collapse(s) ==
    LET K == KeptIndices(s)
    IN  [k \in 1..Cardinality(K) |->
            s[CHOOSE i \in K : Cardinality({ j \in K : j <= i }) = k]]

\* C7: the list built by either maneuver summarizer is the list of extracted
\* entries with each run of equal consecutive entries collapsed to one: no two
\* adjacent entries are equal, and an entry equal to an earlier entry that is
\* not adjacent is kept; the summary returned is that list joined.
C7_ConsecutiveDuplicatesCollapsed ==
    IsSummarizer =>
        /\ road_names = Collapse(entries)
        /\ \A i \in 1..(Len(road_names) - 1) : road_names[i] # road_names[i + 1]
        /\ pc = "returned" => ret = Str(join(Collapse(entries)))

C7_Witness ==
    /\ op = "_get_route_from_vehicle_maneuver"
    /\ pc = "returned"
    /\ Len(entries) = 3
    /\ entries[1] = <<"A1">>
    /\ entries[2] # entries[1]
    /\ entries[3] = entries[1]
    /\ Len(road_names) = 3
    /\ ret.value = <<"A1", "; ", "; ", "A1">>

\* C8: for every instruction string, malformed markup included, both maneuver
\* summarizers go on without raising; a step whose instruction lacks the
\* opening span adds no entry; and the summary of no step at all is the empty
\* string.
C8_MalformedMarkupSkipped ==
    /\ [](IsSummarizer =>
            /\ pc # "raised"
            /\ error = NoError
            /\ Len(entries) + nLacking = nSteps
            /\ (pc = "returned" /\ nSteps = 0) => ret = Str(<< >>))
    /\ [][(IsSummarizer' /\ nLacking' > nLacking)
            => (road_names' = road_names /\ entries' = entries)]_vars

C8_Witness ==
    /\ op = "_get_route_from_non_vehicle_maneuver"
    /\ pc = "returned"
    /\ nSteps = 3
    /\ nLacking = 2
    /\ road_names = << <<"A1">> >>
    /\ ret = Str(<<"A1">>)

\* C9: the summary of a list of line segments is made of "<lineName> -
\* <destination>" for each segment, in the order of the list and joined by
\* "; ": no segment is dropped and no repeat is suppressed.
C9_EveryLineSegmentListed ==
    (op = "_get_route_from_public_transport_line" /\ pc = "returned") =>
        LET segments == args.segments
            n == Len(segments)
            route == ret.value
        IN  /\ ret.kind = "str"
            /\ Len(route) = IF n = 0 THEN 0 ELSE 4 * n - 1
            /\ \A i \in 1..n :
                 /\ route[4 * i - 3] = segments[i].lineName
                 /\ route[4 * i - 2] = " - "
                 /\ route[4 * i - 1] = segments[i].destination
                 /\ i < n => route[4 * i] = "; "

C9_Witness ==
    /\ op = "_get_route_from_public_transport_line"
    /\ pc = "returned"
    /\ args.segments = << [lineName |-> "U1", destination |-> "X"],
                          [lineName |-> "U1", destination |-> "X"] >>
    /\ ret.value = <<"U1", " - ", "X", "; ", "U1", " - ", "X">>

\* the lookup of a waypoint given as a name fails: the geocoder raises, or
\* its response has no item
LookupFails(waypoint) ==
    /\ waypoint.str
    /\ LET r == free_form(waypoint.name) IN r.raised \/ r.value = << >>

\* C10: whenever resolving a waypoint given as a place name fails, the
\* geocoder raising or returning no item, the caller of the routing or matrix
\* operation receives a WaypointNotFound error.
C10_LookupFailureIsWaypointNotFound ==
    /\ (args.kind = "route" /\ LookupFails(args.waypoint_a))
          => pc = "raised" /\ error.type = "WaypointNotFoundError"
    /\ (args.kind = "matrix" /\ LookupFails(args.origins[1]))
          => pc = "raised" /\ error.type = "WaypointNotFoundError"

\* the {lat, lng} object of a waypoint: its own coordinates, or the position
\* of the geocoder's first item when it is a name
LatLngOf(waypoint) ==
    IF waypoint.str
    THEN free_form(waypoint.name).value[1].position
    ELSE [lat |-> waypoint.pos[1], lng |-> waypoint.pos[2]]
LatLngList(waypoints) == [i \in 1..Len(waypoints) |-> LatLngOf(waypoints[i])]

\* C11: the body that sync_matrix posts and the body that async_matrix posts
\* for the same origins and destinations are equal: in both, origins is the
\* list of the caller's origins and destinations the list of the caller's
\* destinations, in input order, each as a {lat, lng} object.
C11_MatrixBodyCarriesDestinations ==
    (op \in {"sync_matrix", "async_matrix"} /\ pc = "posting") =>
        /\ outbox.origins = LatLngList(args.origins)
        /\ outbox.destinations = LatLngList(args.destinations)

\* a waypoint as the request carries it: "geo!<lat>,<lng>"
GeoOf(waypoint) == LET p == LatLngOf(waypoint) IN <<"geo!", p.lat, ",", p.lng>>

\* C12: the route request that intermediate_route(waypoint_a, waypoint_b,
\* waypoint_c) issues carries the three points in that order: the start
\* waypoint_a, the intermediate waypoint_b and, as the route's final waypoint,
\* waypoint_c.
C12_IntermediateRouteCarriesThreePoints ==
    (op = "intermediate_route" /\ pc = "getting") =>
        /\ "waypoint2" \in DOMAIN outbox
        /\ outbox.waypoint0 = GeoOf(args.waypoint_a)
        /\ outbox.waypoint1 = GeoOf(args.waypoint_b)
        /\ outbox.waypoint2 = GeoOf(args.waypoint_c)

\* C13: an async_matrix call issues one submission POST and no second one,
\* whatever the poll responses; a status GET is issued only after that POST was
\* answered with status code 202, and every status GET goes to the statusUrl of
\* that answer's body; for any other status code of the answer the call has
\* raised an error and issues no status GET and no result-fetch.
C13_OneSubmissionThenPolling ==
    op = "async_matrix" =>
        /\ nPost <= 1
        /\ pc \in {"polling", "polled", "returned"} => nPost = 1
        /\ (nPost = 0) = (submission = NoResponse)
        /\ (nStatusGet > 0 \/ pc \in {"polling", "polled"}) =>
              /\ nPost = 1
              /\ submission.status_code = 202
              /\ submission.body.statusUrl # Absent
              /\ \A i \in DOMAIN history :
                   history[i].url = <<submission.body.statusUrl, "?apiKey=", API_KEY>>
        /\ (nPost = 1 /\ submission.status_code # 202) =>
              /\ pc = "raised"
              /\ error.type = "HEREError"
              /\ nStatusGet = 0
              /\ nFetch = 0

C13_Witness ==
    /\ op = "async_matrix"
    /\ pc = "raised"
    /\ nPost = 1
    /\ submission.status_code = 202
    /\ nStatusGet = 3
    /\ history[1].code = 200
    /\ history[2].code = 204
    /\ history[3].code = 500
    /\ history[3].url = <<"s1", "?apiKey=", API_KEY>>

\* C14: whatever goes wrong in async_matrix once it has submitted, at the
\* submission, during a poll or after polling, the caller receives a HEREError
\* and no exception of another type (JSON decode error, KeyError, TypeError);
\* when the response at fault is not JSON or lacks a field the code reads, it
\* is the generic HEREError "Error occured on <operation>".
C14_OnlyGenericErrorEscapes ==
    (op = "async_matrix" /\ nPost = 1 /\ pc = "raised") =>
        /\ error.type = "HEREError"
        /\ ~result.body.json => error = GenericHEREError
        /\ (result.status_code \in {200, 202} /\ result.body.matrixId = Absent)
              => error = GenericHEREError

\* the last poll response is "still running": status code 200 and a body with
\* matrixId and a status field
StillRunning ==
    /\ history # << >>
    /\ Last(history).code = 200
    /\ result.body.json
    /\ result.body.matrixId # Absent
    /\ result.body.status # Absent

\* the last poll response is terminal as the specification has it: status
\* completed, a failed job with an error field, an authentication failure,
\* not found or a server error
TerminalAsStated ==
    /\ history # << >>
    /\ \/ Last(history).code \in {401, 403, 404, 500}
       \/ /\ result.body.json
          /\ result.body.matrixId # Absent
          /\ \/ result.body.status = "completed"
             \/ result.body.status # Absent /\ result.body.error \notin {Absent, ""}

\* a poll response that is terminal for the code: an authentication failure,
\* not found, a server error, or See Other with a JSON body that is not empty
Terminal(h) == h.code \in {401, 403, 404, 500} \/ (h.code = 303 /\ h.truthy)

\* C15, as the specification states it: once a poll is answered with a
\* terminal response, status completed included, the call eventually returns
\* or raises.
C15_TerminalAsStatedEndsCall == TerminalAsStated ~> Finished

\* C15, amended: the poll loop has no bound on its turns and never stops on a
\* response with status code 200 that carries matrixId and status, whatever
\* the status field says; a response with status code 401, 403, 404 or 500, or
\* with status code 303 and a JSON body that is not empty, ends the loop at
\* once, so it is the last one polled; and under fairness the call then
\* eventually returns or raises.
C15_TerminalResponseEndsCall ==
    /\ [](pc = "polling" => ENABLED PollForever)
    /\ [](StillRunning => pc = "polling")
    /\ []((history # << >> /\ Terminal(Last(history)))
            => pc \in {"polled", "returned", "raised"})
    /\ (history # << >> /\ Terminal(Last(history))) ~> Finished

C15_Witness ==
    /\ op = "async_matrix"
    /\ nStatusGet = MaxPolls
    /\ Last(history).code = 303
    /\ result.body.status = "inProgress"
    /\ result.body.error = ""
    /\ pc = "returned"

\* the text of the first span that tag opens in an instruction: the pieces
\* from the tag to the next closing tag, parentheses left out
SpanContent(instruction, tag) ==
    LET open == CHOOSE i \in DOMAIN instruction :
                    instruction[i] = tag /\ \A j \in 1..(i - 1) : instruction[j] # tag
        ends == { j \in (open + 1)..Len(instruction) : instruction[j] = SPAN_END }
        close == IF ends = { } THEN Len(instruction) + 1
                 ELSE CHOOSE j \in ends : \A k \in ends : j <= k
    IN  SelectSeq(SubSeq(instruction, open + 1, close - 1), LAMBDA x : x \notin {"(", ")"})

\* the entry that a step of a vehicle maneuver yields, as a list of none or one
C16_Entry(instruction) ==
    IF ~HasSpan(instruction, NUMBER) THEN << >>
    ELSE IF HasSpan(instruction, NEXT_STREET)
    THEN << SpanContent(instruction, NUMBER) \o <<" - ">> \o SpanContent(instruction, NEXT_STREET) >>
    ELSE << SpanContent(instruction, NUMBER) >>

RECURSIVE C16_Entries(_)
C16_Entries(maneuver) ==
    IF maneuver = << >> THEN << >>
    ELSE C16_Entry(maneuver[1].instruction) \o C16_Entries(Tail(maneuver))

\* C16: in _get_route_from_vehicle_maneuver each step yields, before repeats
\* are suppressed, "<number> - <street>" when its instruction has a number span
\* and a next-street span, "<number>" when it has a number span only, and
\* nothing when it has no number span, a next-street span or not; the summary
\* is the surviving entries in step order, joined with "; ".
C16_VehicleEntryByNumberAndStreet ==
    op = "_get_route_from_vehicle_maneuver(maneuver)" =>
        /\ pc = "returned"
        /\ ret = Str(join(Collapse(C16_Entries(args.maneuver))))

C16_Witness ==
    /\ op = "_get_route_from_vehicle_maneuver(maneuver)"
    /\ pc = "returned"
    /\ Len(args.maneuver) = 2
    /\ args.maneuver[1].instruction =
         <<"Turn onto ", NEXT_STREET, "(", "Elm", ")", SPAN_END, " for ">>
    /\ args.maneuver[2].instruction =
         <<"Turn onto ", NEXT_STREET, "Main", SPAN_END, " for ", NUMBER, "(", "B2", ")", SPAN_END>>
    /\ ret = Str(<<"B2", " - ", "Main">>)

ModeSet(modes) == { modes[i] : i \in DOMAIN modes }

\* the extractor that the priority order gives for a list of modes
C17_Extractor(modes) ==
    IF ModeSet(modes) \cap {"car", "truck"} # { } THEN "vehicle"
    ELSE IF ModeSet(modes) \cap {"publicTransport", "publicTransportTimeTable"} # { } THEN "line"
    ELSE IF ModeSet(modes) \cap {"pedestrian", "bicycle"} # { } THEN "non_vehicle"
    ELSE "none"

\* the summary that an extractor computes from an answer of the routing service
C17_Summary(extractor, answer) ==
    IF extractor = "vehicle" THEN Str(get_route_from_vehicle_maneuver(answer.maneuver).value)
    ELSE IF extractor = "line"
    THEN Str(get_route_from_public_transport_line(answer.publicTransportLine))
    ELSE IF extractor = "non_vehicle"
    THEN Str(get_route_from_non_vehicle_maneuver(answer.maneuver).value)
    ELSE None

\* C17: for every list of modes, and every answer that carries a route with
\* its maneuver, _route computes the summary with the one extractor that this
\* priority order gives: the vehicle-maneuver extractor if the modes include
\* car or truck, else the line-segment extractor (which needs the route's
\* publicTransportLine) if they include publicTransport or
\* publicTransportTimeTable, else the non-vehicle-maneuver extractor if they
\* include pedestrian or bicycle; with none of these modes the response is
\* returned with no summary and no error.
C17_ExtractorByModePriority ==
    (nRouteGet = 1 /\ result.json /\ result.response /\ result.hasManeuver) =>
        LET extractor == C17_Extractor(outbox.modes)
        IN  IF extractor = "line" /\ ~result.hasLine
            THEN pc = "raised" /\ error = Exc("KeyError", <<"publicTransportLine">>)
            ELSE /\ pc = "returned"
                 /\ error = NoError
                 /\ ret.extractor = extractor
                 /\ ret.route_short = C17_Summary(extractor, result)

C17_Witness ==
    /\ nRouteGet = 1
    /\ pc = "returned"
    /\ outbox.modes = <<"bicycle", "publicTransport">>
    /\ result.publicTransportLine # << >>
    /\ Len(result.maneuver) = 2
    /\ ret.extractor = "line"
    /\ ret.route_short = Str(<<"U1", " - ", "X">>)

====
